---- MODULE Spec2Model ----
(***************************************************************************)
(* Model of src/main.py: the syllable heuristic, StyleAnalyzer.analyze,    *)
(* StyleAnalyzer.format_analysis_for_prompt, StyleTransfer.rewrite and the *)
(* run of main() from reading the two input files to saving the output.    *)
(*                                                                         *)
(* Text is a sequence of one-character strings.  A float that the code     *)
(* obtains by dividing two integers is kept as the exact pair <<num, den>> *)
(* (den = 0 never occurs on a path the code takes).  The spaCy pipeline    *)
(* and the Ollama backend are external: the document spaCy returns and the *)
(* backend's answer are inputs chosen from bounded sets.                   *)
(***************************************************************************)
EXTENDS Integers, Sequences, FiniteSets, TLC

VARIABLES
    pc,             \* position of main(): the statement to run next, or "exited"
    source_text,    \* main: source_text, <<>> before it is read
    style_ref_doc,  \* self.nlp(style_ref_text): the tokens of the style reference
    analyze_calls,  \* number of calls of analyzer.analyze made so far
    style_analysis, \* main: style_analysis, <<>> or <<profile>>
    style_guide,    \* main: style_guide, <<>> or <<guide>>
    chat_log,       \* the messages argument of every self.client.chat call so far
    chat_response,  \* the response the backend returned, <<>> or <<response>>
    rewritten_text, \* main: rewritten_text, <<>> or <<text>>
    output_file,    \* args.output: <<>> never opened, else <<content>>
    failure,        \* the fatal error of this run, "none" when there is none
    exit_status,    \* process exit status, -1 while running
    syl_word,       \* syllable_count: argument
    syl_count,      \* syllable_count: count before line 21, <<>> or <<n>>
    syl_out         \* syllable_count: <<>>, <<"IndexError">> or <<n>>

vars == <<pc, source_text, style_ref_doc, analyze_calls, style_analysis,
          style_guide, chat_log, chat_response, rewritten_text, output_file,
          failure, exit_status, syl_word, syl_count, syl_out>>

main_vars == <<pc, source_text, style_ref_doc, analyze_calls, style_analysis,
               style_guide, chat_log, chat_response, rewritten_text,
               output_file, failure, exit_status>>

syl_vars == <<syl_word, syl_count, syl_out>>

(***************************************************************************)
(* Bounds                                                                  *)
(***************************************************************************)
MaxTokens == 3      \* longest enumerated style-reference document, in tokens
MaxWordLen == 3     \* longest word handed to syllable_count
MaxKeys == 6        \* most keys of a distribution handed to the formatter
MaxCount == 2       \* largest tally of one key handed to the formatter

(***************************************************************************)
(* Characters and strings                                                  *)
(***************************************************************************)
\* str.lower on the characters the model uses
LowerChar(c) ==
    CASE c = "T" -> "t"
      [] c = "E" -> "e"
      [] c = "D" -> "d"
      [] c = "C" -> "c"
      [] OTHER -> c

Lower(word) == [i \in 1..Len(word) |-> LowerChar(word[i])]

IsWhitespace(c) == c \in {" ", "\n"}

RECURSIVE LStrip(_)
LStrip(s) ==
    IF s # <<>> /\ IsWhitespace(Head(s)) THEN LStrip(Tail(s)) ELSE s

RECURSIVE RStrip(_)
RStrip(s) ==
    IF s # <<>> /\ IsWhitespace(s[Len(s)])
    THEN RStrip(SubSeq(s, 1, Len(s) - 1))
    ELSE s

\* str.strip()
Strip(s) == RStrip(LStrip(s))

RECURSIVE Sum(_)
Sum(xs) == IF xs = <<>> THEN 0 ELSE Head(xs) + Sum(Tail(xs))

Reverse(xs) == [i \in 1..Len(xs) |-> xs[Len(xs) + 1 - i]]

\* equality and order of two exact fractions with non-negative denominators
RatEq(a, b) == a[1] * b[2] = b[1] * a[2]
RatLess(a, b) == a[1] * b[2] < b[1] * a[2]

(***************************************************************************)
(* syllable_count                                                          *)
(***************************************************************************)
vowels == {"a", "e", "i", "o", "u", "y"}

\* lines 12-18: the count after the loop
VowelGroupStarts(word) ==
    (IF word[1] \in vowels THEN 1 ELSE 0)
    + Cardinality({index \in 2..Len(word) :
                      word[index] \in vowels /\ word[index - 1] \notin vowels})

\* lines 19-20
SilentE(count, word) ==
    IF word[Len(word)] = "e" THEN count - 1 ELSE count

\* the count on reaching line 21
CountBeforeClamp(word) ==
    LET w == Lower(word) IN SilentE(VowelGroupStarts(w), w)

NoClamp(count) == count

\* lines 21-22
Clamp(count) == IF count = 0 THEN count + 1 ELSE count

syllable_count(word) == Clamp(CountBeforeClamp(word))

(***************************************************************************)
(* The spaCy document: tokens with text, whitespace_, pos_, is_alpha,      *)
(* is_punct, is_space and is_sent_start                                    *)
(***************************************************************************)
Tok(text, ws, pos, alpha, punct, space, start) ==
    [text |-> text, whitespace_ |-> ws, pos_ |-> pos, is_alpha |-> alpha,
     is_punct |-> punct, is_space |-> space, is_sent_start |-> start]

\* the tokens the enumerated documents are made of: two spellings of one
\* word, a verb, two punctuation marks, a whitespace token and a number
Lexicon(start) ==
    { Tok(<<"T", "h", "e">>, <<" ">>, "DET", TRUE, FALSE, FALSE, start),
      Tok(<<"t", "h", "e">>, <<" ">>, "DET", TRUE, FALSE, FALSE, start),
      Tok(<<"r", "u", "n">>, <<>>, "VERB", TRUE, FALSE, FALSE, start),
      Tok(<<".">>, <<" ">>, "PUNCT", FALSE, TRUE, FALSE, start),
      Tok(<<"!">>, <<>>, "PUNCT", FALSE, TRUE, FALSE, start),
      Tok(<<" ">>, <<>>, "SPACE", FALSE, FALSE, TRUE, start),
      Tok(<<"2">>, <<" ">>, "NUM", FALSE, FALSE, FALSE, start) }

Tokens == Lexicon(TRUE) \cup Lexicon(FALSE)

\* nlp("Dogs run. Cats run fast!")
ExampleDoc ==
    << Tok(<<"D", "o", "g", "s">>, <<" ">>, "NOUN", TRUE, FALSE, FALSE, TRUE),
       Tok(<<"r", "u", "n">>, <<>>, "VERB", TRUE, FALSE, FALSE, FALSE),
       Tok(<<".">>, <<" ">>, "PUNCT", FALSE, TRUE, FALSE, FALSE),
       Tok(<<"C", "a", "t", "s">>, <<" ">>, "NOUN", TRUE, FALSE, FALSE, TRUE),
       Tok(<<"r", "u", "n">>, <<" ">>, "VERB", TRUE, FALSE, FALSE, FALSE),
       Tok(<<"f", "a", "s", "t">>, <<>>, "ADV", TRUE, FALSE, FALSE, FALSE),
       Tok(<<"!">>, <<>>, "PUNCT", FALSE, TRUE, FALSE, FALSE) >>

\* nlp(text) for the texts of the model: the empty document, every document
\* of at most MaxTokens tokens whose first token starts a sentence, and the
\* example
Docs ==
    {<<>>, ExampleDoc}
    \cup UNION {{d \in [1..n -> Tokens] : d[1].is_sent_start} : n \in 1..MaxTokens}

\* doc.text: every token's text followed by its trailing whitespace
RECURSIVE DocText(_)
DocText(doc) ==
    IF doc = <<>> THEN <<>>
    ELSE Head(doc).text \o Head(doc).whitespace_ \o DocText(Tail(doc))

\* list(doc.sents): a sentence runs from a token with is_sent_start to the
\* token before the next one
RECURSIVE Sents(_)
Sents(doc) ==
    IF doc = <<>> THEN <<>>
    ELSE LET before == Sents(SubSeq(doc, 1, Len(doc) - 1))
             last == doc[Len(doc)]
         IN  IF before = <<>> \/ last.is_sent_start
             THEN Append(before, <<last>>)
             ELSE [before EXCEPT ![Len(before)] = Append(@, last)]

IsAlpha(token) == token.is_alpha
IsPunct(token) == token.is_punct
NotPunctNotSpace(token) == ~token.is_punct /\ ~token.is_space

\* [f(token) for token in tokens]
TextOf(tokens) == [i \in 1..Len(tokens) |-> tokens[i].text]
PosOf(tokens) == [i \in 1..Len(tokens) |-> tokens[i].pos_]

(***************************************************************************)
(* StyleAnalyzer.analyze                                                   *)
(***************************************************************************)
\* line 41
EmptyInput(doc) == Len(doc) = 0 \/ Len(Strip(DocText(doc))) = 0

\* line 45
Words(doc) == TextOf(SelectSeq(doc, IsAlpha))

NoContentBoth(sentences, words) == sentences = <<>> /\ words = <<>>

\* line 47
NoContent(sentences, words) == sentences = <<>> \/ words = <<>>

\* line 56
SentenceLengths(sentences) ==
    [i \in 1..Len(sentences) |-> Len(SelectSeq(sentences[i], IsAlpha))]

\* np.mean(xs), xs not empty
np_mean(xs) == <<Sum(xs), Len(xs)>>

SampleVariance(xs) ==
    LET n == Len(xs)
        s == Sum(xs)
    IN  <<Sum([i \in 1..n |-> (n * xs[i] - s) * (n * xs[i] - s)]), n * n * (n - 1)>>

\* np.std(xs) ** 2, xs not empty, in exact arithmetic: the mean over the n
\* values of the squared deviation (xs[i] - s/n)^2 = (n*xs[i] - s)^2 / n^2
np_std_squared(xs) ==
    LET n == Len(xs)
        s == Sum(xs)
    IN  <<Sum([i \in 1..n |-> (n * xs[i] - s) * (n * xs[i] - s)]), n * n * n>>

LowerCasedSet(words) == {Lower(words[i]) : i \in 1..Len(words)}

\* set(words)
SetOf(words) == {words[i] : i \in 1..Len(words)}

\* the keys of Counter(items), in insertion order: the order of first occurrence
RECURSIVE FirstSeen(_)
FirstSeen(items) ==
    IF items = <<>> THEN <<>>
    ELSE LET before == FirstSeen(SubSeq(items, 1, Len(items) - 1))
             last == items[Len(items)]
         IN  IF \E i \in 1..Len(before) : before[i] = last
             THEN before
             ELSE Append(before, last)

\* Counter(items) as the sequence of its (key, count) items
Counter(items) ==
    LET keys == FirstSeen(items)
    IN  [k \in 1..Len(keys) |->
            [key |-> keys[k],
             count |-> Cardinality({i \in 1..Len(items) : items[i] = keys[k]})]]

\* {key: count / total for key, count in counts.items()} if total > 0 else {}
Distribution(counts, total) ==
    IF total > 0
    THEN [k \in 1..Len(counts) |->
             [key |-> counts[k].key, frac |-> <<counts[k].count, total>>]]
    ELSE <<>>

\* lines 74-76, times 1000: 206.835 - 1.015 * (w / s) - 84.6 * (syl / w)
FleschEase(total_words, total_sentences, total_syllables) ==
    IF total_sentences > 0 /\ total_words > 0
    THEN << 206835 * total_sentences * total_words
              - 1015 * total_words * total_words
              - 84600 * total_syllables * total_sentences,
            1000 * total_sentences * total_words >>
    ELSE <<0, 1>>

\* lines 50-85: the dictionary analyze returns
Profile(doc, sentences, words) ==
    LET total_words == Len(words)
        total_sentences == Len(sentences)
        total_syllables == Sum([i \in 1..Len(words) |-> syllable_count(words[i])])
        sentence_lengths == SentenceLengths(sentences)
        pos_counts == Counter(PosOf(SelectSeq(doc, NotPunctNotSpace)))
        punct_counts == Counter(TextOf(SelectSeq(doc, IsPunct)))
        total_puncts == Sum([k \in 1..Len(punct_counts) |-> punct_counts[k].count])
    IN  [avg_sentence_length |->
            IF sentence_lengths # <<>> THEN np_mean(sentence_lengths) ELSE <<0, 1>>,
         sentence_length_variance |->
            IF sentence_lengths # <<>> THEN np_std_squared(sentence_lengths)
            ELSE <<0, 1>>,
         type_token_ratio |->
            IF total_words > 0 THEN <<Cardinality(SetOf(words)), total_words>>
            ELSE <<0, 1>>,
         pos_distribution |-> Distribution(pos_counts, total_words),
         punctuation_distribution |-> Distribution(punct_counts, total_puncts),
         flesch_reading_ease |->
            FleschEase(total_words, total_sentences, total_syllables)]

\* lines 37-85: analyze raises ValueError or returns the profile
analyze(doc) ==
    IF EmptyInput(doc)
    THEN [raises |-> TRUE, value |-> <<>>]
    ELSE LET sentences == Sents(doc)
             words == Words(doc)
         IN  IF NoContent(sentences, words)
             THEN [raises |-> TRUE, value |-> <<>>]
             ELSE [raises |-> FALSE, value |-> <<Profile(doc, sentences, words)>>]

(***************************************************************************)
(* StyleAnalyzer.format_analysis_for_prompt                                *)
(***************************************************************************)
TopPos == 5
TopPuncts == 3

\* list.sort's stable ascending insertion of item x: after every item whose
\* fraction is not greater
InsertAsc(sorted, x) ==
    LET later == {i \in 1..Len(sorted) : RatLess(x.frac, sorted[i].frac)}
        at == IF later = {} THEN Len(sorted) + 1
              ELSE CHOOSE i \in later : \A j \in later : i <= j
    IN  SubSeq(sorted, 1, at - 1) \o <<x>> \o SubSeq(sorted, at, Len(sorted))

RECURSIVE StableSortAsc(_)
StableSortAsc(items) ==
    IF items = <<>> THEN <<>>
    ELSE InsertAsc(StableSortAsc(SubSeq(items, 1, Len(items) - 1)),
                   items[Len(items)])

SortedThenReversed(items) == Reverse(StableSortAsc(items))

\* sorted(items, key=lambda item: item[1], reverse=True): the list is
\* reversed, sorted stably in ascending order and reversed again
SortedDescending(items) == Reverse(StableSortAsc(Reverse(items)))

\* items[:n]
Take(items, n) == SubSeq(items, 1, IF n < Len(items) THEN n ELSE Len(items))

\* round(x * scale) for the fraction x, ties to even: the digits a format
\* specification with a fixed number of decimals prints
Rounded(x, scale) ==
    LET num == x[1] * scale
        q == num \div x[2]
        r == num % x[2]
    IN  IF 2 * r > x[2] \/ (2 * r = x[2] /\ q % 2 = 1) THEN q + 1 ELSE q

\* lines 95-96 and 100-101: one line per item, the fraction as {:.1%}
Lines(items) ==
    [i \in 1..Len(items) |->
        [key |-> items[i].key, percent |-> Rounded(items[i].frac, 1000)]]

\* lines 89-104: the parts of the prompt, in order
format_analysis_for_prompt(analysis, author_name) ==
    [author |-> author_name,
     avg_sentence_length |-> Rounded(analysis.avg_sentence_length, 10),
     sentence_length_variance |-> Rounded(analysis.sentence_length_variance, 10),
     type_token_ratio |-> Rounded(analysis.type_token_ratio, 100),
     top_pos |-> Lines(Take(SortedDescending(analysis.pos_distribution), TopPos)),
     top_puncts |->
        Lines(Take(SortedDescending(analysis.punctuation_distribution), TopPuncts)),
     flesch_reading_ease |-> Rounded(analysis.flesch_reading_ease, 1)]

(***************************************************************************)
(* StyleTransfer.rewrite                                                   *)
(***************************************************************************)
\* lines 122-128
system_prompt == "You are an expert literary editor. ... Rewrite ONLY the text provided."

\* lines 130-137: the pieces of the f-string, in order; "BACKQUOTE" stands
\* for the one-character delimiter put around the source text on line 135
user_prompt(source_text_, style_guide_, author_name) ==
    << style_guide_, "\n\n## Task\n\nRewrite the following source text into the style of ",
       author_name, ". Apply the stylistic rules from the analysis above meticulously.",
       "\n\n### Source Text:\n\n", "BACKQUOTE", source_text_, "BACKQUOTE",
       "\n\n### Rewritten Text in the style of ", author_name, ":" >>

\* lines 142-145
Messages(source_text_, style_guide_, author_name) ==
    << [role |-> "system", content |-> system_prompt],
       [role |-> "user",
        content |-> user_prompt(source_text_, style_guide_, author_name)] >>

ReturnStripped(response) == Strip(response.message.content)

\* line 148
Return(response) == response.message.content

(***************************************************************************)
(* Inputs of a run                                                         *)
(***************************************************************************)
\* args.author
Author == "Ernest Hemingway"

\* contents of the file args.source
SourceTexts == {"", "The dog ran."}

\* what self.client.chat can return: texts with and without surrounding
\* whitespace, and the empty text
Responses ==
    {[message |-> [role |-> "assistant", content |-> c]] :
        c \in {<<>>, <<"O", "k">>, <<" ", "O", "k", "\n">>}}

(***************************************************************************)
(* main()                                                                  *)
(***************************************************************************)
\* sys.exit(1), or an exception nothing catches: the interpreter prints the
\* traceback and ends with status 1
Exit(error) ==
    /\ pc' = "exited"
    /\ failure' = error
    /\ exit_status' = 1

\* lines 161-165: both files are read
ReadFilesOk ==
    /\ pc = "read_files"
    /\ \E s \in SourceTexts, d \in Docs :
          /\ source_text' = <<s>>
          /\ style_ref_doc' = <<d>>
    /\ pc' = "analyzer_init"
    /\ UNCHANGED <<analyze_calls, style_analysis, style_guide, chat_log,
                   chat_response, rewritten_text, output_file, failure,
                   exit_status, syl_vars>>

\* lines 161-168: the source file or the style reference does not exist
ReadFilesNotFound ==
    /\ pc = "read_files"
    /\ \/ UNCHANGED source_text
       \/ \E s \in SourceTexts : source_text' = <<s>>
    /\ Exit("FileNotFoundError")
    /\ UNCHANGED <<style_ref_doc, analyze_calls, style_analysis, style_guide,
                   chat_log, chat_response, rewritten_text, output_file,
                   syl_vars>>

\* lines 172 and 28-31: spacy.load succeeds
AnalyzerInitOk ==
    /\ pc = "analyzer_init"
    /\ pc' = "analyze"
    /\ UNCHANGED <<source_text, style_ref_doc, analyze_calls, style_analysis,
                   style_guide, chat_log, chat_response, rewritten_text,
                   output_file, failure, exit_status, syl_vars>>

\* lines 172 and 32-35: spacy.load raises OSError
AnalyzerInitFail ==
    /\ pc = "analyzer_init"
    /\ Exit("SpacyModelNotFound")
    /\ UNCHANGED <<source_text, style_ref_doc, analyze_calls, style_analysis,
                   style_guide, chat_log, chat_response, rewritten_text,
                   output_file, syl_vars>>

\* lines 173-177
Analyze ==
    /\ pc = "analyze"
    /\ analyze_calls' = analyze_calls + 1
    /\ LET result == analyze(style_ref_doc[1])
       IN  IF result.raises
           THEN /\ Exit("ValueError")
                /\ UNCHANGED style_analysis
           ELSE /\ style_analysis' = result.value
                /\ pc' = "format"
                /\ UNCHANGED <<failure, exit_status>>
    /\ UNCHANGED <<source_text, style_ref_doc, style_guide, chat_log,
                   chat_response, rewritten_text, output_file, syl_vars>>

\* lines 180-183
Format ==
    /\ pc = "format"
    /\ style_guide' = <<format_analysis_for_prompt(style_analysis[1], Author)>>
    /\ pc' = "transfer_init"
    /\ UNCHANGED <<source_text, style_ref_doc, analyze_calls, style_analysis,
                   chat_log, chat_response, rewritten_text, output_file,
                   failure, exit_status, syl_vars>>

\* lines 186 and 109-114: self.client.list() answers
TransferInitOk ==
    /\ pc = "transfer_init"
    /\ pc' = "rewrite"
    /\ UNCHANGED <<source_text, style_ref_doc, analyze_calls, style_analysis,
                   style_guide, chat_log, chat_response, rewritten_text,
                   output_file, failure, exit_status, syl_vars>>

TransferInitFailNoExit ==
    /\ pc = "transfer_init"
    /\ pc' = "rewrite"
    /\ failure' = "BackendUnreachable"
    /\ UNCHANGED <<source_text, style_ref_doc, analyze_calls, style_analysis,
                   style_guide, chat_log, chat_response, rewritten_text,
                   output_file, exit_status, syl_vars>>

\* lines 186 and 115-118: self.client.list() raises
TransferInitFail ==
    /\ pc = "transfer_init"
    /\ Exit("BackendUnreachable")
    /\ UNCHANGED <<source_text, style_ref_doc, analyze_calls, style_analysis,
                   style_guide, chat_log, chat_response, rewritten_text,
                   output_file, syl_vars>>

\* lines 187 and 120-148: the chat call returns a response
RewriteOk ==
    /\ pc = "rewrite"
    /\ chat_log' = Append(chat_log, Messages(source_text[1], style_guide[1], Author))
    /\ \E response \in Responses :
          /\ chat_response' = <<response>>
          /\ rewritten_text' = <<Return(response)>>
    /\ pc' = "save"
    /\ UNCHANGED <<source_text, style_ref_doc, analyze_calls, style_analysis,
                   style_guide, output_file, failure, exit_status, syl_vars>>

RewriteFailAfterOpen ==
    /\ pc = "rewrite"
    /\ chat_log' = Append(chat_log, Messages(source_text[1], style_guide[1], Author))
    /\ output_file' = << <<>> >>
    /\ Exit("GenerationFailed")
    /\ UNCHANGED <<source_text, style_ref_doc, analyze_calls, style_analysis,
                   style_guide, chat_response, rewritten_text, syl_vars>>

RewriteFailRetry ==
    /\ pc = "rewrite"
    /\ Len(chat_log) < 3
    /\ chat_log' = Append(chat_log, Messages(source_text[1], style_guide[1], Author))
    /\ UNCHANGED <<pc, source_text, style_ref_doc, analyze_calls, style_analysis,
                   style_guide, chat_response, rewritten_text, output_file,
                   failure, exit_status, syl_vars>>

\* lines 187 and 140-146: the chat call raises; nothing catches it
RewriteFail ==
    /\ pc = "rewrite"
    /\ chat_log' = Append(chat_log, Messages(source_text[1], style_guide[1], Author))
    /\ Exit("GenerationFailed")
    /\ UNCHANGED <<source_text, style_ref_doc, analyze_calls, style_analysis,
                   style_guide, chat_response, rewritten_text, output_file,
                   syl_vars>>

\* lines 195-197: the text is written and main returns
SaveOk ==
    /\ pc = "save"
    /\ output_file' = rewritten_text
    /\ pc' = "exited"
    /\ exit_status' = 0
    /\ UNCHANGED <<source_text, style_ref_doc, analyze_calls, style_analysis,
                   style_guide, chat_log, chat_response, rewritten_text,
                   failure, syl_vars>>

\* line 195: open(args.output, 'w') raises; nothing catches it
SaveOpenFail ==
    /\ pc = "save"
    /\ Exit("OutputPathInvalid")
    /\ UNCHANGED <<source_text, style_ref_doc, analyze_calls, style_analysis,
                   style_guide, chat_log, chat_response, rewritten_text,
                   output_file, syl_vars>>

\* line 196: the file is open and truncated, and f.write raises
SaveWriteFail ==
    /\ pc = "save"
    /\ output_file' = << <<>> >>
    /\ Exit("OutputWriteFailed")
    /\ UNCHANGED <<source_text, style_ref_doc, analyze_calls, style_analysis,
                   style_guide, chat_log, chat_response, rewritten_text,
                   syl_vars>>

Next ==
    \/ ReadFilesOk
    \/ ReadFilesNotFound
    \/ AnalyzerInitOk
    \/ AnalyzerInitFail
    \/ Analyze
    \/ Format
    \/ TransferInitOk
    \/ TransferInitFail
    \/ RewriteOk
    \/ RewriteFail
    \/ SaveOk
    \/ SaveOpenFail
    \/ SaveWriteFail

SylIdle ==
    /\ syl_word = <<>>
    /\ syl_count = <<>>
    /\ syl_out = <<>>

\* nothing computed yet: the state of main() after the files are read, or
\* before
NothingComputed ==
    /\ analyze_calls = 0
    /\ style_analysis = <<>>
    /\ style_guide = <<>>
    /\ chat_log = <<>>
    /\ chat_response = <<>>
    /\ rewritten_text = <<>>
    /\ output_file = <<>>
    /\ failure = "none"
    /\ exit_status = -1

Init ==
    /\ pc = "read_files"
    /\ source_text = <<>>
    /\ style_ref_doc = <<>>
    /\ NothingComputed
    /\ SylIdle

\* a run of main()
Spec == Init /\ [][Next]_vars

(***************************************************************************)
(* analyze and format_analysis_for_prompt on documents with many tags and  *)
(* marks                                                                   *)
(***************************************************************************)
PosTags == <<"NOUN", "VERB", "DET", "ADJ", "ADV", "PRON", "ADP", "AUX">>
PunctMarks == <<".", ",", "!", "?", ";", ":", "-", "(">>

Repeat(token, n) == [i \in 1..n |-> token]

RECURSIVE WordRuns(_, _)
WordRuns(counts, k) ==
    IF k = 0 THEN <<>>
    ELSE WordRuns(counts, k - 1)
         \o Repeat(Tok(<<"b", "a">>, <<" ">>, PosTags[k], TRUE, FALSE, FALSE, FALSE),
                   counts[k])

RECURSIVE PunctRuns(_, _)
PunctRuns(counts, k) ==
    IF k = 0 THEN <<>>
    ELSE PunctRuns(counts, k - 1)
         \o Repeat(Tok(<<PunctMarks[k]>>, <<>>, "PUNCT", FALSE, TRUE, FALSE, FALSE),
                   counts[k])

\* a one-sentence document: counts[k] words tagged PosTags[k] for every k,
\* then counts[k] marks PunctMarks[k] for k up to m
TallyDoc(counts, m) ==
    LET doc == WordRuns(counts, Len(counts)) \o PunctRuns(counts, m)
    IN  [doc EXCEPT ![1].is_sent_start = TRUE]

TallyDocs ==
    UNION {{TallyDoc(counts, m) : counts \in [1..n -> 1..MaxCount], m \in 0..n} :
             n \in 1..MaxKeys}

InitFormat ==
    /\ pc = "analyze"
    /\ source_text \in {<<s>> : s \in SourceTexts}
    /\ style_ref_doc \in {<<d>> : d \in TallyDocs}
    /\ NothingComputed
    /\ SylIdle

NextFormat == Analyze \/ Format

\* the analysis and the style guide of a document with up to MaxKeys tags
SpecFormat == InitFormat /\ [][NextFormat]_vars

(***************************************************************************)
(* syllable_count on its own                                               *)
(***************************************************************************)
SylChars == {"a", "e", "y", "b", "t", "E"}

SylWords == UNION {[1..n -> SylChars] : n \in 0..MaxWordLen}

\* lines 10-23: word[0] of the empty word raises IndexError
SyllableCount ==
    /\ syl_out = <<>>
    /\ IF syl_word = <<>>
       THEN /\ syl_out' = <<"IndexError">>
            /\ UNCHANGED syl_count
       ELSE /\ syl_count' = <<CountBeforeClamp(syl_word)>>
            /\ syl_out' = <<syllable_count(syl_word)>>
    /\ UNCHANGED <<syl_word, main_vars>>

InitSyllable ==
    /\ pc = "read_files"
    /\ source_text = <<>>
    /\ style_ref_doc = <<>>
    /\ NothingComputed
    /\ syl_word \in SylWords
    /\ syl_count = <<>>
    /\ syl_out = <<>>

NextSyllable == SyllableCount

\* one call of syllable_count
SpecSyllable == InitSyllable /\ [][NextSyllable]_vars


(***************************************************************************)
(* Properties of a run of main()                                           *)
(***************************************************************************)
FatalBeforeSave ==
    {"FileNotFoundError", "ValueError", "SpacyModelNotFound",
     "BackendUnreachable", "GenerationFailed"}

\* C1: the output file is opened only once the chat call has returned its
\* completion, and a run that ends in a missing input file, an analysis
\* error, a pipeline or backend initialization failure or a generation
\* failure never opens it.
OutputOnlyAfterGeneration ==
    /\ output_file # <<>> =>
          /\ chat_response # <<>>
          /\ rewritten_text # <<>>
          /\ Len(chat_log) = 1
    /\ failure \in FatalBeforeSave => output_file = <<>>

GenerationFailedLeavesNoOutput ==
    /\ pc = "exited"
    /\ failure = "GenerationFailed"
    /\ Len(chat_log) = 1
    /\ output_file = <<>>

\* C2: every fatal error ends the run with a non-zero status, and the run
\* ends with status zero only with the rewritten text in the output file.
ExitStatusReflectsOutcome ==
    /\ failure # "none" => pc = "exited" /\ exit_status > 0
    /\ pc = "exited" => exit_status >= 0
    /\ exit_status = 0 =>
          /\ pc = "exited"
          /\ failure = "none"
          /\ rewritten_text # <<>>
          /\ output_file = rewritten_text

SavedAndExitedZero ==
    /\ exit_status = 0
    /\ output_file = << <<" ", "O", "k", "\n">> >>

\* C3: analyze is called at most once and the chat call is made at most once
\* (no second attempt after a failure); the chat call is made only after the
\* style guide is formatted, and the guide only after analyze has returned a
\* profile.
SingleOrderedAttempt ==
    /\ analyze_calls <= 1
    /\ Len(chat_log) <= 1
    /\ Len(chat_log) > 0 => style_guide # <<>>
    /\ style_guide # <<>> => style_analysis # <<>> /\ analyze_calls = 1
    /\ failure = "GenerationFailed" => pc = "exited" /\ Len(chat_log) = 1

OneAnalysisThenOneChat ==
    /\ pc = "save"
    /\ analyze_calls = 1
    /\ style_guide # <<>>
    /\ Len(chat_log) = 1

(***************************************************************************)
(* Properties of analyze                                                   *)
(***************************************************************************)
ProfileKeys ==
    {"avg_sentence_length", "sentence_length_variance", "type_token_ratio",
     "pos_distribution", "punctuation_distribution", "flesch_reading_ease"}

\* the text has no character that is not whitespace
TrimmedTextEmpty(doc) ==
    \A i \in 1..Len(doc) :
        /\ \A j \in 1..Len(doc[i].text) : doc[i].text[j] \in {" ", "\n"}
        /\ \A j \in 1..Len(doc[i].whitespace_) : doc[i].whitespace_[j] \in {" ", "\n"}

AlphaPositions(doc) == {i \in 1..Len(doc) : doc[i].is_alpha}

\* C4: analyze fails and returns no profile exactly when the trimmed text is
\* empty, the pipeline yields no sentence, or it yields no alphabetic token;
\* otherwise it returns a profile with all six metrics.
AnalyzeFailsIffNoContent ==
    analyze_calls = 1 =>
        LET doc == style_ref_doc[1]
            no_content ==
                \/ TrimmedTextEmpty(doc)
                \/ Len(doc) = 0
                \/ AlphaPositions(doc) = {}
        IN  IF no_content
            THEN style_analysis = <<>> /\ failure = "ValueError"
            ELSE /\ failure # "ValueError"
                 /\ Len(style_analysis) = 1
                 /\ DOMAIN style_analysis[1] = ProfileKeys

PunctuationOnlyRejected ==
    /\ analyze_calls = 1
    /\ failure = "ValueError"
    /\ style_analysis = <<>>
    /\ \E i \in 1..Len(style_ref_doc[1]) : style_ref_doc[1][i].is_punct

RatAdd(a, b) == <<a[1] * b[2] + b[1] * a[2], a[2] * b[2]>>

RECURSIVE FractionSum(_)
FractionSum(dist) ==
    IF dist = <<>> THEN <<0, 1>>
    ELSE RatAdd(dist[1].frac, FractionSum(Tail(dist)))

\* C5: whenever analyze returns a profile, the fractions of pos_distribution
\* sum to 1, also when the document holds tokens that are neither
\* alphabetic nor punctuation nor whitespace.
PosFractionsSumToOne ==
    style_analysis # <<>> =>
        RatEq(FractionSum(style_analysis[1].pos_distribution), <<1, 1>>)

\* C6: type_token_ratio is the number of distinct case-sensitive surface
\* forms among the alphabetic tokens over the number of alphabetic tokens,
\* so it lies in [0,1]; for "Dogs run. Cats run fast!" it is 4/5.
TypeTokenRatioIsDistinctOverTotal ==
    style_analysis # <<>> =>
        LET doc == style_ref_doc[1]
            alpha == AlphaPositions(doc)
            first == {i \in alpha :
                        \A j \in alpha : j < i => doc[j].text # doc[i].text}
            ttr == style_analysis[1].type_token_ratio
        IN  /\ ttr[2] > 0
            /\ RatEq(ttr, <<Cardinality(first), Cardinality(alpha)>>)
            /\ 0 <= ttr[1] /\ ttr[1] <= ttr[2]
            /\ doc = ExampleDoc => RatEq(ttr, <<4, 5>>)

ExampleRatioFourFifths ==
    /\ style_analysis # <<>>
    /\ style_ref_doc[1] = ExampleDoc
    /\ style_analysis[1].type_token_ratio = <<4, 5>>

\* the number of the sentence token i belongs to
SentenceOf(doc, i) ==
    Cardinality({j \in 1..i : j = 1 \/ doc[j].is_sent_start})

\* C10: avg_sentence_length is the mean of the per-sentence counts of
\* alphabetic tokens and sentence_length_variance their population variance
\* (divided by N): for the counts x, (N * sum(x^2) - sum(x)^2) / N^2; for
\* the counts [2,3] they are 5/2 and 1/4.
MeanAndPopulationVariance ==
    style_analysis # <<>> =>
        LET doc == style_ref_doc[1]
            n == SentenceOf(doc, Len(doc))
            x == [k \in 1..n |->
                    Cardinality({i \in AlphaPositions(doc) : SentenceOf(doc, i) = k})]
            s == Sum(x)
            sq == Sum([k \in 1..n |-> x[k] * x[k]])
            avg == style_analysis[1].avg_sentence_length
            var == style_analysis[1].sentence_length_variance
        IN  /\ avg[2] > 0 /\ var[2] > 0
            /\ RatEq(avg, <<s, n>>)
            /\ RatEq(var, <<n * sq - s * s, n * n>>)
            /\ doc = ExampleDoc =>
                  x = <<2, 3>> /\ RatEq(avg, <<5, 2>>) /\ RatEq(var, <<1, 4>>)

ExampleVarianceOneQuarter ==
    /\ style_analysis # <<>>
    /\ style_ref_doc[1] = ExampleDoc
    /\ RatEq(style_analysis[1].avg_sentence_length, <<5, 2>>)
    /\ RatEq(style_analysis[1].sentence_length_variance, <<1, 4>>)

(***************************************************************************)
(* Properties of syllable_count                                            *)
(***************************************************************************)
\* C7: for a non-empty word syllable_count returns the number of vowel-group
\* starts, less 1 if the word ends in "e"; that number is never negative,
\* and 0 is raised to 1, so the result is at least 1.
SyllableCountAtLeastOne ==
    (syl_out # <<>> /\ syl_word # <<>>) =>
        LET w == Lower(syl_word)
            v == {"a", "e", "i", "o", "u", "y"}
            starts == Cardinality({i \in 1..Len(w) :
                                     w[i] \in v /\ (i = 1 \/ w[i - 1] \notin v)})
            raw == starts - (IF w[Len(w)] = "e" THEN 1 ELSE 0)
        IN  /\ syl_count = <<raw>>
            /\ raw >= 0
            /\ syl_out = <<IF raw = 0 THEN 1 ELSE raw>>
            /\ syl_out[1] >= 1

SilentEWordClamped ==
    /\ syl_word = <<"t", "E">>
    /\ syl_count = <<0>>
    /\ syl_out = <<1>>

(***************************************************************************)
(* Properties of rewrite                                                   *)
(***************************************************************************)
\* C8: every call of rewrite makes one chat call with exactly two messages,
\* system then user, and returns the completion of the backend unchanged.
RewriteTwoMessagesVerbatim ==
    /\ \A c \in 1..Len(chat_log) :
          /\ Len(chat_log[c]) = 2
          /\ chat_log[c][1].role = "system"
          /\ chat_log[c][2].role = "user"
    /\ rewritten_text # <<>> =>
          /\ Len(chat_log) = 1
          /\ chat_response # <<>>
          /\ rewritten_text[1] = chat_response[1].message.content

PaddedCompletionReturned ==
    /\ pc = "save"
    /\ Len(chat_log) = 1
    /\ rewritten_text = << <<" ", "O", "k", "\n">> >>

(***************************************************************************)
(* Properties of format_analysis_for_prompt                                *)
(***************************************************************************)
\* position of a key in the mapping
IndexOfKey(dist, key) == CHOOSE i \in 1..Len(dist) : dist[i].key = key

\* entry i goes before entry j: greater fraction, or equal and inserted first
GoesBefore(dist, i, j) ==
    \/ RatLess(dist[j].frac, dist[i].frac)
    \/ RatEq(dist[i].frac, dist[j].frac) /\ i < j

TopListed(dist, top, n) ==
    /\ Len(top) <= n
    /\ Len(top) = IF Len(dist) < n THEN Len(dist) ELSE n
    /\ \A a \in 1..Len(top) : \E i \in 1..Len(dist) : dist[i].key = top[a].key
    /\ \A a, b \in 1..Len(top) :
          a < b => GoesBefore(dist, IndexOfKey(dist, top[a].key),
                              IndexOfKey(dist, top[b].key))
    /\ \A i \in 1..Len(dist) :
          (\A a \in 1..Len(top) : top[a].key # dist[i].key) =>
              \A a \in 1..Len(top) :
                  GoesBefore(dist, IndexOfKey(dist, top[a].key), i)

\* C9: the guide lists at most 5 POS tags and at most 3 punctuation marks by
\* descending fraction; entries of equal fraction keep the insertion order
\* of the mapping, among themselves and in which of them is cut off.
TopEntriesDescendingStable ==
    style_guide # <<>> =>
        /\ TopListed(style_analysis[1].pos_distribution, style_guide[1].top_pos, 5)
        /\ TopListed(style_analysis[1].punctuation_distribution,
                     style_guide[1].top_puncts, 3)

TieAtTheCut ==
    /\ style_guide # <<>>
    /\ LET pos == style_analysis[1].pos_distribution
           punct == style_analysis[1].punctuation_distribution
       IN  /\ Len(pos) = 6
           /\ RatLess(pos[1].frac, pos[2].frac)
           /\ \A i \in 3..6 : RatEq(pos[i].frac, pos[1].frac)
           /\ [a \in 1..5 |-> style_guide[1].top_pos[a].key]
                 = <<"VERB", "NOUN", "DET", "ADJ", "ADV">>
           /\ Len(punct) = 4
           /\ [a \in 1..3 |-> style_guide[1].top_puncts[a].key] = <<",", ".", "!">>

====
